---------------------------- MODULE Spec2Model ----------------------------
(***************************************************************************)
(* A model of sxplayer's test program (test-prog.c): the action-sequence   *)
(* enumerator (get_next_comb / has_dup), the frame oracle (check_frame),   *)
(* the probe actions and the executor (exec_comb), and the sweep           *)
(* (run_tests_all_combs / main).                                           *)
(*                                                                         *)
(* Spec is the whole program; SpecEnum the enumeration from the empty      *)
(* sequence; SpecSucc get_next_comb on any input; SpecOracle check_frame   *)
(* on its own; SpecProbe one action on its own.                            *)
(*                                                                         *)
(* Times are fixed-point numbers, 1 unit = 1 ms, so that 1/SOURCE_FPS,     *)
(* TESTVAL_SKIP and TESTVAL_TRIM_DURATION are all exact.                   *)
(***************************************************************************)
EXTENDS Integers, Sequences, FiniteSets, TLC

VARIABLES
    ecomb,      \* enumeration: the caller's comb, or the argument of the activation in progress
    epc,        \* enumeration: "idle" between calls, "in_call" inside get_next_comb
    edepth,     \* enumeration: number of self-calls made by the call in progress
    emitted,    \* enumeration: the non-sentinel values returned so far, in order
    ncalls,     \* enumeration: number of get_next_comb calls made by the caller
    sinput,     \* enumeration: the argument of the caller's first get_next_comb call
    chk,        \* oracle: the arguments of a check_frame call, its locals and its result
    probe,      \* probes: an action, the flags and the player's answers it is called with,
                \* and what it came to
    pc,         \* harness: where main / run_tests_all_combs / exec_comb stands
    cfgi,       \* harness: which of main's run_tests_all_combs calls is in progress (1..4)
    run_comb,   \* run_tests_all_combs.comb
    cand,       \* the argument of the get_next_comb activation in progress
    cdepth,     \* harness: self-calls made by the get_next_comb call in progress
    run_ret_set, \* run_tests_all_combs.ret has been assigned
    run_ret,    \* run_tests_all_combs.ret
    run_s,      \* run_tests_all_combs.s: the session's number, 0 for NULL
    live,       \* the sessions created and not yet freed
    opts,       \* the options set on session run_s
    nCreated,   \* sessions created by the run_tests_all_combs call in progress
    nFreed,     \* sessions freed by the run_tests_all_combs call in progress
    slot,       \* exec_comb.i
    invoked,    \* exec_comb: the action and return value of every call made on run_s (none
                \* once run_s is freed)
    trace,      \* the player and check_frame calls of the last action called on run_s
    rv,         \* the value returned by run_tests_all_combs, then by main
    nExec,      \* exec_comb calls made by the run_tests_all_combs call in progress
    nPassed,    \* exec_comb calls that returned 0, over all of main's calls
    seqFailed   \* an exec_comb call has returned a failure

enumVars == <<ecomb, epc, edepth, emitted, ncalls, sinput>>
oracleVars == <<chk>>
probeVars == <<probe>>
harnessVars == <<pc, cfgi, run_comb, cand, cdepth, run_ret_set, run_ret, run_s, live, opts, nCreated, nFreed,
                 slot, invoked, trace, rv, nExec, nPassed, seqFailed>>
vars == <<enumVars, oracleVars, probeVars, harnessVars>>

-----------------------------------------------------------------------------
(* enum action / BITS_PER_ACTION *)

BITS_PER_ACTION == 4
EOA == 0
ACTION_PREFETCH == 1
ACTION_FETCH_INFO == 2
ACTION_START == 3
ACTION_MIDDLE == 4
ACTION_END == 5
NB_ACTIONS == 6

Pow2(n) == 2 ^ n

\* a << n and a >> n on non-negative integers
Shl(a, n) == a * Pow2(n)
Shr(a, n) == a \div Pow2(n)

\* bitwise a | b and a & b on non-negative integers
RECURSIVE BitOr(_, _)
BitOr(a, b) ==
    IF a = 0 THEN b
    ELSE IF b = 0 THEN a
    ELSE (IF (a % 2) + (b % 2) > 0 THEN 1 ELSE 0) + 2 * BitOr(a \div 2, b \div 2)

RECURSIVE BitAnd(_, _)
BitAnd(a, b) ==
    IF a = 0 \/ b = 0 THEN 0
    ELSE (IF (a % 2) + (b % 2) = 2 THEN 1 ELSE 0) + 2 * BitAnd(a \div 2, b \div 2)

\* #define GET_ACTION(c, id) ((c) >> ((id)*BITS_PER_ACTION) & ((1<<BITS_PER_ACTION)-1))
GET_ACTION(c, id) == BitAnd(Shr(c, id * BITS_PER_ACTION), Shl(1, BITS_PER_ACTION) - 1)

-----------------------------------------------------------------------------
(* has_dup: the for loop, with the bit set `actions` of the ids seen so far *)

RECURSIVE has_dup_loop(_, _, _)
has_dup_loop(comb, i, actions) ==
    IF i >= NB_ACTIONS THEN 0
    ELSE LET action == GET_ACTION(comb, i) IN
         IF action = 0 THEN 0
         ELSE IF BitAnd(actions, Shl(1, action)) # 0 THEN 1
         ELSE has_dup_loop(comb, i + 1, BitOr(actions, Shl(1, action)))

(* get_next_comb: the for (;;) loop; the result is <<left by return EOA, ret>> *)

\* mutant: the wrap-around tests the last action instead of NB_ACTIONS
RECURSIVE next_comb_loop_wrap_early(_, _, _, _)
next_comb_loop_wrap_early(comb, i, need_inc, ret) ==
    LET action == GET_ACTION(comb, i) IN
    IF i = NB_ACTIONS THEN <<TRUE, EOA>>
    ELSE IF action = 0 /\ ~need_inc THEN <<FALSE, ret>>
    ELSE LET inc   == IF need_inc THEN action + 1 ELSE action
             wrap  == need_inc /\ inc = NB_ACTIONS - 1
             act2  == IF wrap THEN 1 ELSE inc
         IN  next_comb_loop_wrap_early(comb, i + 1, wrap,
                                       BitOr(ret, Shl(act2, i * BITS_PER_ACTION)))

\* mutant: the wrap-around goes back to 0 (EOA) instead of the first action
RECURSIVE next_comb_loop_wrap_zero(_, _, _, _)
next_comb_loop_wrap_zero(comb, i, need_inc, ret) ==
    LET action == GET_ACTION(comb, i) IN
    IF i = NB_ACTIONS THEN <<TRUE, EOA>>
    ELSE IF action = 0 /\ ~need_inc THEN <<FALSE, ret>>
    ELSE LET inc   == IF need_inc THEN action + 1 ELSE action
             wrap  == need_inc /\ inc = NB_ACTIONS
             act2  == IF wrap THEN 0 ELSE inc
         IN  next_comb_loop_wrap_zero(comb, i + 1, wrap,
                                      BitOr(ret, Shl(act2, i * BITS_PER_ACTION)))

\* mutant: the loop is left one slot early (i == NB_ACTIONS - 1)
RECURSIVE next_comb_loop_short(_, _, _, _)
next_comb_loop_short(comb, i, need_inc, ret) ==
    LET action == GET_ACTION(comb, i) IN
    IF i = NB_ACTIONS - 1 THEN <<TRUE, EOA>>
    ELSE IF action = 0 /\ ~need_inc THEN <<FALSE, ret>>
    ELSE LET inc   == IF need_inc THEN action + 1 ELSE action
             wrap  == need_inc /\ inc = NB_ACTIONS
             act2  == IF wrap THEN 1 ELSE inc
         IN  next_comb_loop_short(comb, i + 1, wrap,
                                  BitOr(ret, Shl(act2, i * BITS_PER_ACTION)))

\* mutant: the wrap-around goes back to the last action instead of the first
RECURSIVE next_comb_loop_wrap_last(_, _, _, _)
next_comb_loop_wrap_last(comb, i, need_inc, ret) ==
    LET action == GET_ACTION(comb, i) IN
    IF i = NB_ACTIONS THEN <<TRUE, EOA>>
    ELSE IF action = 0 /\ ~need_inc THEN <<FALSE, ret>>
    ELSE LET inc   == IF need_inc THEN action + 1 ELSE action
             wrap  == need_inc /\ inc = NB_ACTIONS
             act2  == IF wrap THEN NB_ACTIONS - 1 ELSE inc
         IN  next_comb_loop_wrap_last(comb, i + 1, wrap,
                                      BitOr(ret, Shl(act2, i * BITS_PER_ACTION)))

RECURSIVE next_comb_loop(_, _, _, _)
next_comb_loop(comb, i, need_inc, ret) ==
    LET action == GET_ACTION(comb, i) IN
    IF i = NB_ACTIONS THEN <<TRUE, EOA>>
    ELSE IF action = 0 /\ ~need_inc THEN <<FALSE, ret>>
    ELSE LET inc   == IF need_inc THEN action + 1 ELSE action
             wrap  == need_inc /\ inc = NB_ACTIONS
             act2  == IF wrap THEN 1 ELSE inc    \* back to first action
         IN  next_comb_loop(comb, i + 1, wrap,
                            BitOr(ret, Shl(act2, i * BITS_PER_ACTION)))

\* mutant: the duplicate test is dropped
has_dup_never(comb) == 0

\* mutant: only the first four slots are searched for a duplicate
has_dup_first_four(comb) == has_dup_loop(comb % Shl(1, 4 * BITS_PER_ACTION), 0, 0)

has_dup(comb) == has_dup_loop(comb, 0, 0)

\* mutant: the i == NB_ACTIONS exit returns the candidate instead of EOA
get_next_comb_no_eoa(comb) ==
    LET r == next_comb_loop(comb, 0, TRUE, 0) IN
    IF r[1] THEN <<TRUE, comb>>
    ELSE IF has_dup(r[2]) # 0 THEN <<FALSE, r[2]>>
    ELSE <<TRUE, r[2]>>

\* One activation of get_next_comb: <<TRUE, v>> when it returns v, <<FALSE, c>>
\* when it calls itself on the candidate c (return get_next_comb(ret)).
get_next_comb(comb) ==
    LET r == next_comb_loop(comb, 0, TRUE, 0) IN
    IF r[1] THEN <<TRUE, EOA>>
    ELSE IF has_dup(r[2]) # 0 THEN <<FALSE, r[2]>>
    ELSE <<TRUE, r[2]>>

-----------------------------------------------------------------------------
(* check_frame                                                              *)

\* a double holding seconds is a whole number of 1/TimeUnit s; DBL_MAX is the
\* largest value of the model's numbers
TimeUnit == 1000
DBL_MAX == 2147483647

N == 4
SOURCE_FPS == 25

FLAG_SKIP == 1
FLAG_TRIM_DURATION == 2
FLAG_AUDIO == 4

TESTVAL_SKIP == 7120
TESTVAL_TRIM_DURATION == 53430

\* 1./SOURCE_FPS
FramePeriod == TimeUnit \div SOURCE_FPS

fabs(x) == IF x < 0 THEN 0 - x ELSE x

av_clipd(a, amin, amax) == IF a < amin THEN amin ELSE IF a > amax THEN amax ELSE a

\* (c >> sh) & 0xf for c = *(const uint32_t *)data, data being the four bytes of
\* the first pixel in memory order (little-endian load)
PixelNibble(data, sh) ==
    LET k  == sh \div 8
        lo == data[k + 1]
        hi == IF k + 2 <= Len(data) THEN data[k + 2] ELSE 0
    IN  BitAnd(Shr(lo + 256 * hi, sh % 8), 15)

\* the locals of check_frame that depend on t and the flags only
check_skip(opt_test_flags) ==
    IF BitAnd(opt_test_flags, FLAG_SKIP) # 0 THEN TESTVAL_SKIP ELSE 0

check_trim_duration(opt_test_flags) ==
    IF BitAnd(opt_test_flags, FLAG_TRIM_DURATION) # 0 THEN TESTVAL_TRIM_DURATION ELSE 0 - TimeUnit

\* mutant: the requested time is not clipped to the trim duration
check_playback_time_unclipped(t, opt_test_flags) == av_clipd(t, 0, DBL_MAX)

check_playback_time(t, opt_test_flags) ==
    LET trim_duration == check_trim_duration(opt_test_flags) IN
    av_clipd(t, 0, IF trim_duration < 0 THEN DBL_MAX ELSE trim_duration)

check_frame_id(data) ==
    LET r == PixelNibble(data, N + 16)
        g == PixelNibble(data, N + 8)
        b == PixelNibble(data, N + 0)
    IN  BitOr(BitOr(Shl(r, N * 2), Shl(g, N)), b)

\* mutant: a difference equal to the tolerance is rejected (>= for >)
check_frame_strict(f, t, opt_test_flags) ==
    LET skip          == check_skip(opt_test_flags)
        playback_time == check_playback_time(t, opt_test_flags)
        diff_ts       == fabs(playback_time - (f.ts - skip))
        frame_id      == check_frame_id(f.data)
        diff_color    == fabs(playback_time - ((frame_id * TimeUnit) \div SOURCE_FPS - skip))
        audio         == BitAnd(opt_test_flags, FLAG_AUDIO) # 0
    IN  [playback_time |-> playback_time, diff_ts |-> diff_ts,
         ret |-> IF ~audio /\ diff_color >= FramePeriod THEN -1
                 ELSE IF diff_ts >= FramePeriod THEN -1
                 ELSE 0]

\* check_frame on a frame that is there: its result and the locals the claims name
check_frame(f, t, opt_test_flags) ==
    LET skip          == check_skip(opt_test_flags)
        playback_time == check_playback_time(t, opt_test_flags)
        frame_ts      == f.ts
        estimated_time_from_ts == frame_ts - skip
        diff_ts       == fabs(playback_time - estimated_time_from_ts)
        frame_id      == check_frame_id(f.data)
        video_ts      == (frame_id * TimeUnit) \div SOURCE_FPS
        estimated_time_from_color == video_ts - skip
        diff_color    == fabs(playback_time - estimated_time_from_color)
        audio         == BitAnd(opt_test_flags, FLAG_AUDIO) # 0
    IN  [playback_time |-> playback_time, diff_ts |-> diff_ts,
         ret |-> IF ~audio /\ diff_color > FramePeriod THEN -1
                 ELSE IF diff_ts > FramePeriod THEN -1
                 ELSE 0]

\* the first pixel of the synthetic video's frame number id; junk fills the bits
\* check_frame does not read
PixelBytes(id, junk) ==
    <<(id % 16) * 16 + junk, ((id \div 16) % 16) * 16 + junk,
      ((id \div 256) % 16) * 16 + junk, 255>>

-----------------------------------------------------------------------------
(* The player's answers. One answer per request an action makes: for a frame *)
(* request `present` tells whether a frame comes back, with its ts and data; *)
(* sxplayer_prefetch and sxplayer_get_info answer rc (and width, height).    *)
(* check_frame reads f->ts and f->data of the frame it is given, so applied  *)
(* to NULL its behaviour is undefined: `ub` is what the build does then: the *)
(* process is killed ("crash"), or the read goes through and the garbage     *)
(* passes or fails the tests ("pass", "fail").                               *)

UBOutcomes == {"crash", "pass", "fail"}

NullFrame(ub) == [present |-> FALSE, ts |-> 0, data |-> <<0, 0, 0, 0>>, ub |-> ub]

\* a frame of the synthetic video with timestamp ts
FrameAt(ts) ==
    [present |-> TRUE, ts |-> ts, data |-> PixelBytes(ts \div FramePeriod, 0), ub |-> "crash"]

\* the frame the test expects for a request at t, and one three frames late
GoodFrame(t, flags) == FrameAt(check_playback_time(t, flags) + check_skip(flags))
LateFrame(t, flags) == FrameAt(check_playback_time(t, flags) + check_skip(flags) + 3 * FramePeriod)

FrameAnswers(t, flags) ==
    {GoodFrame(t, flags), LateFrame(t, flags)} \cup {NullFrame(ub) : ub \in UBOutcomes}

PlayerRcs == {0, -1, -5}

-----------------------------------------------------------------------------
(* The actions. Each yields [crashed, ret, trace]: whether the process was   *)
(* killed inside it, else its return value, and the calls it made: on frame  *)
(* handle h (the number of the request that returned it, 0 for NULL).        *)

Ev(op, h, t) == [op |-> op, h |-> h, t |-> t]
Handle(R, k) == IF R[k].present THEN k ELSE 0
GetFrame(R, k, t) == Ev("get_frame", Handle(R, k), t)
GetNextFrame(R, k) == Ev("get_next_frame", Handle(R, k), -1)
Release(R, k) == Ev("release_frame", Handle(R, k), -1)

Returned(r, tr) == [crashed |-> FALSE, ret |-> r, trace |-> tr]
Crashed(tr) == [crashed |-> TRUE, ret |-> 0, trace |-> tr]

\* check_frame(f, t, opt_test_flags) for f the answer to request k
CheckVerdict(R, k, t, flags) ==
    IF R[k].present
    THEN IF check_frame([ts |-> R[k].ts, data |-> R[k].data], t, flags).ret < 0
         THEN "fail" ELSE "pass"
    ELSE R[k].ub

\* (ret = check_frame(..)) < 0 || (ret = check_frame(..)) < 0 || ...: the checks
\* of `pairs` (<<request, time>>) in order, up to the first that does not pass
RECURSIVE CheckChainFrom(_, _, _, _)
CheckChainFrom(R, pairs, flags, ev) ==
    IF pairs = <<>> THEN [v |-> "pass", ev |-> ev]
    ELSE LET k  == Head(pairs)[1]
             t  == Head(pairs)[2]
             v  == CheckVerdict(R, k, t, flags)
             e  == Ev("check_frame", Handle(R, k), t)
         IN  IF v # "pass" THEN [v |-> v, ev |-> Append(ev, e)]
             ELSE CheckChainFrom(R, Tail(pairs), flags, Append(ev, e))

CheckChain(R, pairs, flags) == CheckChainFrom(R, pairs, flags, <<>>)

\* how an action leaves after a chain of checks that did not pass
FailedChain(c, tr) == IF c.v = "crash" THEN Crashed(tr \o c.ev) ELSE Returned(-1, tr \o c.ev)

action_prefetch(R, flags) == Returned(R[1].rc, <<Ev("prefetch", 0, -1)>>)

action_fetch_info(R, flags) ==
    LET tr == <<Ev("get_info", 0, -1)>> IN
    IF R[1].rc < 0 THEN Returned(R[1].rc, tr)
    ELSE IF R[1].width # 16 \/ R[1].height # 16 THEN Returned(-1, tr)
    ELSE Returned(0, tr)

action_start(R, flags) ==
    LET gets == <<GetFrame(R, 1, 0)>>
        c    == CheckChain(R, <<<<1, 0>>>>, flags)
    IN  IF c.v # "pass" THEN FailedChain(c, gets)
        ELSE Returned(0, gets \o c.ev \o <<Release(R, 1)>>)

\* mutant: the result of the seek to 16.001 is not looked at
action_middle_redeliver(R, flags) ==
    LET gets1 == <<GetFrame(R, 1, 30 * TimeUnit), GetFrame(R, 2, 30 * TimeUnit + TimeUnit \div 10),
                   GetFrame(R, 3, 30 * TimeUnit + 2 * (TimeUnit \div 10)),
                   GetFrame(R, 4, 15 * TimeUnit),
                   GetNextFrame(R, 5), GetNextFrame(R, 6)>>
        c1    == CheckChain(R, <<<<1, 30 * TimeUnit>>,
                                 <<2, 30 * TimeUnit + TimeUnit \div 10>>,
                                 <<3, 30 * TimeUnit + 2 * (TimeUnit \div 10)>>,
                                 <<4, 15 * TimeUnit>>,
                                 <<5, 15 * TimeUnit + FramePeriod>>,
                                 <<6, 15 * TimeUnit + 2 * FramePeriod>>>>, flags)
        rel1  == <<Release(R, 1), Release(R, 6), Release(R, 2),
                   Release(R, 5), Release(R, 3), Release(R, 4)>>
        gets2 == <<GetNextFrame(R, 7), GetFrame(R, 8, 16 * TimeUnit),
                   GetFrame(R, 9, 16 * TimeUnit + 1)>>
        c2    == CheckChain(R, <<<<7, 15 * TimeUnit + 3 * FramePeriod>>,
                                 <<8, 16 * TimeUnit>>>>, flags)
        tr1   == gets1 \o c1.ev \o rel1 \o gets2
    IN  IF c1.v # "pass" THEN FailedChain(c1, gets1)
        ELSE IF c2.v # "pass" THEN FailedChain(c2, tr1)
        ELSE Returned(0, tr1 \o c2.ev \o <<Release(R, 8), Release(R, 7)>>)

\* mutant: f0 is not reassigned: the second stage checks and releases the first-stage f0
action_middle_stale(R, flags) ==
    LET gets1 == <<GetFrame(R, 1, 30 * TimeUnit), GetFrame(R, 2, 30 * TimeUnit + TimeUnit \div 10),
                   GetFrame(R, 3, 30 * TimeUnit + 2 * (TimeUnit \div 10)),
                   GetFrame(R, 4, 15 * TimeUnit),
                   GetNextFrame(R, 5), GetNextFrame(R, 6)>>
        c1    == CheckChain(R, <<<<1, 30 * TimeUnit>>,
                                 <<2, 30 * TimeUnit + TimeUnit \div 10>>,
                                 <<3, 30 * TimeUnit + 2 * (TimeUnit \div 10)>>,
                                 <<4, 15 * TimeUnit>>,
                                 <<5, 15 * TimeUnit + FramePeriod>>,
                                 <<6, 15 * TimeUnit + 2 * FramePeriod>>>>, flags)
        rel1  == <<Release(R, 1), Release(R, 6), Release(R, 2),
                   Release(R, 5), Release(R, 3), Release(R, 4)>>
        gets2 == <<GetNextFrame(R, 7), GetFrame(R, 8, 16 * TimeUnit),
                   GetFrame(R, 9, 16 * TimeUnit + 1)>>
        c2    == CheckChain(R, <<<<1, 15 * TimeUnit + 3 * FramePeriod>>,
                                 <<8, 16 * TimeUnit>>>>, flags)
        tr1   == gets1 \o c1.ev \o rel1 \o gets2
    IN  IF c1.v # "pass" THEN FailedChain(c1, gets1)
        ELSE IF c2.v # "pass" THEN FailedChain(c2, tr1)
        ELSE IF R[9].present THEN Returned(-1, tr1 \o c2.ev)
        ELSE Returned(0, tr1 \o c2.ev \o <<Release(R, 8), Release(R, 1)>>)

action_middle(R, flags) ==
    LET gets1 == <<GetFrame(R, 1, 30 * TimeUnit), GetFrame(R, 2, 30 * TimeUnit + TimeUnit \div 10),
                   GetFrame(R, 3, 30 * TimeUnit + 2 * (TimeUnit \div 10)),
                   GetFrame(R, 4, 15 * TimeUnit),
                   GetNextFrame(R, 5), GetNextFrame(R, 6)>>
        c1    == CheckChain(R, <<<<1, 30 * TimeUnit>>,
                                 <<2, 30 * TimeUnit + TimeUnit \div 10>>,
                                 <<3, 30 * TimeUnit + 2 * (TimeUnit \div 10)>>,
                                 <<4, 15 * TimeUnit>>,
                                 <<5, 15 * TimeUnit + FramePeriod>>,
                                 <<6, 15 * TimeUnit + 2 * FramePeriod>>>>, flags)
        rel1  == <<Release(R, 1), Release(R, 6), Release(R, 2),
                   Release(R, 5), Release(R, 3), Release(R, 4)>>
        gets2 == <<GetNextFrame(R, 7), GetFrame(R, 8, 16 * TimeUnit),
                   GetFrame(R, 9, 16 * TimeUnit + 1)>>
        c2    == CheckChain(R, <<<<7, 15 * TimeUnit + 3 * FramePeriod>>,
                                 <<8, 16 * TimeUnit>>>>, flags)
        tr1   == gets1 \o c1.ev \o rel1 \o gets2
    IN  IF c1.v # "pass" THEN FailedChain(c1, gets1)
        ELSE IF c2.v # "pass" THEN FailedChain(c2, tr1)
        ELSE IF R[9].present THEN Returned(-1, tr1 \o c2.ev)
        ELSE Returned(0, tr1 \o c2.ev \o <<Release(R, 8), Release(R, 7)>>)

\* mutant: a frame for the second request is released but not taken as a failure
action_end_lenient(R, flags) ==
    LET g1 == <<GetFrame(R, 1, 999999 * TimeUnit)>>
        g2 == <<GetFrame(R, 2, 99999 * TimeUnit)>>
    IN  IF ~R[1].present THEN Returned(-1, g1)
        ELSE IF R[2].present
             THEN Returned(0, g1 \o <<Release(R, 1)>> \o g2 \o <<Release(R, 2)>>)
             ELSE Returned(0, g1 \o <<Release(R, 1)>> \o g2)

action_end(R, flags) ==
    LET g1 == <<GetFrame(R, 1, 999999 * TimeUnit)>>
        g2 == <<GetFrame(R, 2, 99999 * TimeUnit)>>
    IN  IF ~R[1].present THEN Returned(-1, g1)
        ELSE IF R[2].present
             THEN Returned(-1, g1 \o <<Release(R, 1)>> \o g2 \o <<Release(R, 2)>>)
             ELSE Returned(0, g1 \o <<Release(R, 1)>> \o g2)

\* actions_desc[action].func(s, opt_test_flags)
actions_desc(action, R, flags) ==
    CASE action = ACTION_PREFETCH   -> action_prefetch(R, flags)
      [] action = ACTION_FETCH_INFO -> action_fetch_info(R, flags)
      [] action = ACTION_START      -> action_start(R, flags)
      [] action = ACTION_MIDDLE     -> action_middle(R, flags)
      [] action = ACTION_END        -> action_end(R, flags)

NoCheck == [called |-> FALSE]
NoProbe == [called |-> FALSE]

-----------------------------------------------------------------------------
(* The answers the player may give to the requests of one action: the ones  *)
(* the test expects, with at most MaxFaults of them replaced by another.    *)

MaxFaults == 2

ActionTimes(action) ==
    CASE action = ACTION_START  -> <<0>>
      [] action = ACTION_MIDDLE -> <<30 * TimeUnit, 30 * TimeUnit + TimeUnit \div 10,
                                     30 * TimeUnit + 2 * (TimeUnit \div 10), 15 * TimeUnit,
                                     15 * TimeUnit + FramePeriod, 15 * TimeUnit + 2 * FramePeriod,
                                     15 * TimeUnit + 3 * FramePeriod, 16 * TimeUnit,
                                     16 * TimeUnit + 1>>
      [] action = ACTION_END    -> <<999999 * TimeUnit, 99999 * TimeUnit>>
      [] OTHER                  -> <<-1>>

ExpectedAnswers(action, flags) ==
    CASE action = ACTION_PREFETCH   -> <<[rc |-> 0]>>
      [] action = ACTION_FETCH_INFO -> <<[rc |-> 0, width |-> 16, height |-> 16]>>
      [] action = ACTION_START      -> <<GoodFrame(0, flags)>>
      [] action = ACTION_MIDDLE     ->
             [k \in 1..9 |-> IF k = 9 THEN NullFrame("crash")
                             ELSE GoodFrame(ActionTimes(action)[k], flags)]
      [] action = ACTION_END        ->
             <<GoodFrame(ActionTimes(action)[1], flags), NullFrame("crash")>>

AnswerChoices(action, flags, k) ==
    CASE action = ACTION_PREFETCH   -> {[rc |-> r] : r \in PlayerRcs}
      [] action = ACTION_FETCH_INFO ->
             [rc : PlayerRcs, width : {16, 480}, height : {16, 640}]
      [] OTHER                      -> FrameAnswers(ActionTimes(action)[k], flags)

RECURSIVE Deviations(_, _, _)
Deviations(action, flags, n) ==
    IF n = 0 THEN {ExpectedAnswers(action, flags)}
    ELSE LET prev == Deviations(action, flags, n - 1) IN
         prev \cup UNION {UNION {{[R EXCEPT ![k] = c] : c \in AnswerChoices(action, flags, k)}
                                 : k \in DOMAIN R}
                          : R \in prev}

PlayerAnswers(action, flags) == Deviations(action, flags, MaxFaults)

-----------------------------------------------------------------------------
(* main, run_tests_all_combs and exec_comb                                  *)

\* the opt_test_flags of main's four run_tests_all_combs calls
Configs == <<0, FLAG_SKIP, FLAG_TRIM_DURATION, FLAG_SKIP + FLAG_TRIM_DURATION>>

opt_test_flags == Configs[cfgi]

\* the options run_tests_all_combs sets on a new session
session_options(flags) ==
    {"auto_hwaccel"}
        \cup (IF BitAnd(flags, FLAG_SKIP) # 0 THEN {"skip"} ELSE {})
        \cup (IF BitAnd(flags, FLAG_TRIM_DURATION) # 0 THEN {"trim_duration"} ELSE {})
        \cup (IF BitAnd(flags, FLAG_AUDIO) # 0 THEN {"avselect"} ELSE {})

\* what calling an action can come to, over the player's possible answers
ActionOutcomes ==
    [action \in ACTION_PREFETCH..ACTION_END, flags \in {Configs[c] : c \in DOMAIN Configs} |->
        {actions_desc(action, R, flags) : R \in PlayerAnswers(action, flags)}]

\* mutant: exec_comb ignores the action's return value
exec_comb_failed_never(r) == FALSE

\* exec_comb: if (ret < 0) return ret;
exec_comb_failed(r) == r < 0

HarnessIdle ==
    /\ pc = "main"
    /\ cfgi = 1
    /\ run_comb = 0
    /\ cand = 0
    /\ cdepth = 0
    /\ run_ret_set = FALSE
    /\ run_ret = 0
    /\ run_s = 0
    /\ live = {}
    /\ opts = {}
    /\ nCreated = 0
    /\ nFreed = 0
    /\ slot = 0
    /\ invoked = <<>>
    /\ trace = <<>>
    /\ rv = 0
    /\ nExec = 0
    /\ nPassed = 0
    /\ seqFailed = FALSE

Init ==
    /\ HarnessIdle
    /\ ecomb = 0
    /\ epc = "idle"
    /\ edepth = 0
    /\ emitted = <<>>
    /\ ncalls = 0
    /\ sinput = 0
    /\ chk = NoCheck
    /\ probe = NoProbe

\* main up to its first run_tests_all_combs call: the argument count and the
\* three tests that come first either let it through or make it return -1
MainPretests ==
    /\ pc = "main"
    /\ \E ok \in BOOLEAN :
        IF ok THEN pc' = "call" /\ rv' = rv
        ELSE pc' = "exit" /\ rv' = -1
    /\ UNCHANGED <<cfgi, run_comb, cand, cdepth, run_ret_set, run_ret, run_s, live, opts,
                   nCreated, nFreed, slot, invoked, trace, nExec, nPassed, seqFailed>>
    /\ UNCHANGED <<enumVars, oracleVars, probeVars>>

\* main calls run_tests_all_combs(av[1], Configs[cfgi])
MainCall ==
    /\ pc = "call"
    /\ pc' = "create"
    /\ run_comb' = 0
    /\ run_s' = 0
    /\ run_ret_set' = FALSE
    /\ run_ret' = 0
    /\ nCreated' = 0
    /\ nFreed' = 0
    /\ invoked' = <<>>
    /\ trace' = <<>>
    /\ nExec' = 0
    /\ UNCHANGED <<cfgi, cand, cdepth, live, opts, slot, rv, nPassed, seqFailed>>
    /\ UNCHANGED <<enumVars, oracleVars, probeVars>>

\* s = sxplayer_create(filename); if (!s) return -1; the sxplayer_set_option calls
CreateSession ==
    /\ pc = "create"
    /\ \E ok \in BOOLEAN :
        IF ok
        THEN /\ run_s' = nCreated + 1
             /\ live' = live \cup {nCreated + 1}
             /\ nCreated' = nCreated + 1
             /\ opts' = session_options(opt_test_flags)
             /\ pc' = "next_comb"
             /\ rv' = rv
        ELSE /\ run_s' = 0
             /\ rv' = -1
             /\ pc' = "returned"
             /\ UNCHANGED <<live, nCreated, opts>>
    /\ UNCHANGED <<cfgi, run_comb, cand, cdepth, run_ret_set, run_ret, nFreed, slot,
                   invoked, trace, nExec, nPassed, seqFailed>>
    /\ UNCHANGED <<enumVars, oracleVars, probeVars>>

\* one activation of get_next_comb on arg, and what run_tests_all_combs does
\* with the value once it is returned: if (comb == EOA) break; else exec_comb
NextCombActivation(arg, depth) ==
    LET r == get_next_comb(arg) IN
    /\ IF r[1]
       THEN /\ run_comb' = r[2]
            /\ cand' = 0
            /\ cdepth' = 0
            /\ pc' = IF r[2] = EOA THEN "final_free" ELSE "exec"
            /\ nExec' = IF r[2] = EOA THEN nExec ELSE nExec + 1
       ELSE /\ run_comb' = run_comb
            /\ cand' = r[2]
            /\ cdepth' = depth + 1
            /\ pc' = "in_next_comb"
            /\ nExec' = nExec
    /\ slot' = 0
    /\ invoked' = <<>>
    /\ trace' = <<>>
    /\ UNCHANGED <<cfgi, run_ret_set, run_ret, run_s, live, opts, nCreated, nFreed, rv,
                   nPassed, seqFailed>>
    /\ UNCHANGED <<enumVars, oracleVars, probeVars>>

NextCombCall ==
    /\ pc = "next_comb"
    /\ NextCombActivation(run_comb, 0)

NextCombRecurse ==
    /\ pc = "in_next_comb"
    /\ NextCombActivation(cand, cdepth)

\* exec_comb: one turn of the for loop that calls an action, and what follows
\* when the action fails: exec_comb returns ret, run_tests_all_combs breaks
ExecAction ==
    /\ pc = "exec"
    /\ slot < NB_ACTIONS
    /\ GET_ACTION(run_comb, slot) # 0
    /\ LET action == GET_ACTION(run_comb, slot) IN
       \E o \in ActionOutcomes[action, opt_test_flags] :
          /\ trace' = o.trace
          /\ invoked' = Append(invoked, [action |-> action, ret |-> o.ret, crashed |-> o.crashed])
          /\ IF o.crashed
             THEN /\ pc' = "crashed"
                  /\ UNCHANGED <<slot, run_ret, run_ret_set, seqFailed>>
             ELSE IF exec_comb_failed(o.ret)
             THEN /\ pc' = "final_free"
                  /\ run_ret' = o.ret
                  /\ run_ret_set' = TRUE
                  /\ slot' = slot
                  /\ seqFailed' = TRUE
             ELSE /\ pc' = "exec"
                  /\ slot' = slot + 1
                  /\ UNCHANGED <<run_ret, run_ret_set, seqFailed>>
    /\ UNCHANGED <<cfgi, run_comb, cand, cdepth, run_s, live, opts, nCreated, nFreed, rv,
                   nExec, nPassed>>
    /\ UNCHANGED <<enumVars, oracleVars, probeVars>>

\* exec_comb leaves its loop (i == NB_ACTIONS or an empty slot) and returns 0
ExecReturn ==
    /\ pc = "exec"
    /\ slot >= NB_ACTIONS \/ GET_ACTION(run_comb, slot) = 0
    /\ run_ret' = 0
    /\ run_ret_set' = TRUE
    /\ pc' = "loop_free"
    /\ nPassed' = nPassed + 1
    /\ UNCHANGED <<cfgi, run_comb, cand, cdepth, run_s, live, opts, nCreated, nFreed, slot,
                   invoked, trace, rv, nExec, seqFailed>>
    /\ UNCHANGED <<enumVars, oracleVars, probeVars>>

\* sxplayer_free(&s): frees the session, if there is one, and sets s to NULL
sxplayer_free ==
    /\ live' = live \ {run_s}
    /\ nFreed' = IF run_s # 0 THEN nFreed + 1 ELSE nFreed
    /\ run_s' = 0
    /\ opts' = {}

\* mutant: the sxplayer_free(&s) at the end of a turn of the loop is left out
FreeSession_skip ==
    /\ pc = "loop_free"
    /\ pc' = "create"
    /\ slot' = 0
    /\ invoked' = <<>>
    /\ trace' = <<>>
    /\ UNCHANGED <<cfgi, run_comb, cand, cdepth, run_ret_set, run_ret, nCreated, rv,
                   nExec, nPassed, seqFailed, live, nFreed, run_s, opts>>
    /\ UNCHANGED <<enumVars, oracleVars, probeVars>>

\* the sxplayer_free(&s) that ends a turn of the for (;;) loop
FreeSession ==
    /\ pc = "loop_free"
    /\ sxplayer_free
    /\ pc' = "create"
    /\ slot' = 0
    /\ invoked' = <<>>
    /\ trace' = <<>>
    /\ UNCHANGED <<cfgi, run_comb, cand, cdepth, run_ret_set, run_ret, nCreated, rv,
                   nExec, nPassed, seqFailed>>
    /\ UNCHANGED <<enumVars, oracleVars, probeVars>>

\* mutant: the break after a failed sequence returns without sxplayer_free(&s)
FinalFree_leak_on_failure ==
    /\ pc = "final_free"
    /\ IF run_comb = EOA THEN sxplayer_free ELSE UNCHANGED <<live, nFreed, run_s, opts>>
    /\ \E v \in (IF run_ret_set THEN {run_ret} ELSE {0, -1}) : rv' = v
    /\ pc' = "returned"
    /\ slot' = 0
    /\ invoked' = <<>>
    /\ trace' = <<>>
    /\ UNCHANGED <<cfgi, run_comb, cand, cdepth, run_ret_set, run_ret, nCreated,
                   nExec, nPassed, seqFailed>>
    /\ UNCHANGED <<enumVars, oracleVars, probeVars>>

\* mutant: the break at EOA returns without sxplayer_free(&s)
FinalFree_keep_last ==
    /\ pc = "final_free"
    /\ IF run_comb # EOA THEN sxplayer_free ELSE UNCHANGED <<live, nFreed, run_s, opts>>
    /\ \E v \in (IF run_ret_set THEN {run_ret} ELSE {0, -1}) : rv' = v
    /\ pc' = "returned"
    /\ slot' = 0
    /\ invoked' = <<>>
    /\ trace' = <<>>
    /\ UNCHANGED <<cfgi, run_comb, cand, cdepth, run_ret_set, run_ret, nCreated,
                   nExec, nPassed, seqFailed>>
    /\ UNCHANGED <<enumVars, oracleVars, probeVars>>

\* after the loop: sxplayer_free(&s); return ret; (ret read unassigned is any value)
FinalFree ==
    /\ pc = "final_free"
    /\ sxplayer_free
    /\ \E v \in (IF run_ret_set THEN {run_ret} ELSE {0, -1}) : rv' = v
    /\ pc' = "returned"
    /\ slot' = 0
    /\ invoked' = <<>>
    /\ trace' = <<>>
    /\ UNCHANGED <<cfgi, run_comb, cand, cdepth, run_ret_set, run_ret, nCreated,
                   nExec, nPassed, seqFailed>>
    /\ UNCHANGED <<enumVars, oracleVars, probeVars>>

\* mutant: main goes on to the next configuration whatever run_tests_all_combs returned
MainNext_ignore ==
    /\ pc = "returned"
    /\ IF cfgi < Len(Configs)
       THEN pc' = "call" /\ rv' = rv /\ cfgi' = cfgi + 1
       ELSE pc' = "exit" /\ rv' = 0 /\ cfgi' = cfgi
    /\ UNCHANGED <<run_comb, cand, cdepth, run_ret_set, run_ret, run_s, live, opts, nCreated,
                   nFreed, slot, invoked, trace, nExec, nPassed, seqFailed>>
    /\ UNCHANGED <<enumVars, oracleVars, probeVars>>

\* main: run_tests_all_combs(..) < 0 || ... return -1; else "All tests OK", return 0
MainNext ==
    /\ pc = "returned"
    /\ IF rv < 0
       THEN pc' = "exit" /\ rv' = -1 /\ cfgi' = cfgi
       ELSE IF cfgi < Len(Configs)
       THEN pc' = "call" /\ rv' = rv /\ cfgi' = cfgi + 1
       ELSE pc' = "exit" /\ rv' = 0 /\ cfgi' = cfgi
    /\ UNCHANGED <<run_comb, cand, cdepth, run_ret_set, run_ret, run_s, live, opts, nCreated,
                   nFreed, slot, invoked, trace, nExec, nPassed, seqFailed>>
    /\ UNCHANGED <<enumVars, oracleVars, probeVars>>

Next ==
    \/ MainPretests
    \/ MainCall
    \/ CreateSession
    \/ NextCombCall
    \/ NextCombRecurse
    \/ ExecAction
    \/ ExecReturn
    \/ FreeSession
    \/ FinalFree
    \/ MainNext

Spec == Init /\ [][Next]_vars

-----------------------------------------------------------------------------
(* check_frame on its own, on frames, times and flags drawn from small sets *)

OracleTimes == {0 - 1000, 0, 30100, 53430, 60000}
OracleTs == {0, 40, 41, 7120, 7160, 30099, 30140, 30141, 30200, 37220,
             53430, 60000, 60550, 60591, 67120}
OracleIds == {0, 1, 2, 178, 752, 753, 754, 930, 1336, 1500, 1514, 1678}
OracleData == {PixelBytes(id, 0) : id \in OracleIds}
                  \cup {PixelBytes(752, 15), PixelBytes(1, 9)}
OracleFlags == 0..(FLAG_SKIP + FLAG_TRIM_DURATION + FLAG_AUDIO)

InitOracle ==
    /\ chk \in [called : {FALSE}, ts : OracleTs, data : OracleData,
                t : OracleTimes, flags : OracleFlags]
    /\ HarnessIdle
    /\ ecomb = 0
    /\ epc = "idle"
    /\ edepth = 0
    /\ emitted = <<>>
    /\ ncalls = 0
    /\ sinput = 0
    /\ probe = NoProbe

CheckFrame ==
    /\ ~chk.called
    /\ LET r == check_frame([ts |-> chk.ts, data |-> chk.data], chk.t, chk.flags) IN
       chk' = [called |-> TRUE, ts |-> chk.ts, data |-> chk.data, t |-> chk.t,
               flags |-> chk.flags, playback_time |-> r.playback_time,
               diff_ts |-> r.diff_ts, ret |-> r.ret]
    /\ UNCHANGED <<enumVars, probeVars, harnessVars>>

NextOracle == CheckFrame

SpecOracle == InitOracle /\ [][NextOracle]_vars

\* the claim's terms, in plain arithmetic
Dist(a, b) == IF a >= b THEN a - b ELSE b - a
HasFlag(flags, bit) == (flags \div bit) % 2 = 1
FrameIdOf(data) == (data[3] \div 16) * 256 + (data[2] \div 16) * 16 + (data[1] \div 16)
ClaimSkew(flags) == IF HasFlag(flags, 1) THEN 7120 ELSE 0
ClaimPlaybackTime(t, flags) ==
    LET t0 == IF t < 0 THEN 0 ELSE t IN
    IF HasFlag(flags, 2) /\ t0 > 53430 THEN 53430 ELSE t0

\* C7: Oracle tolerance. check_frame returns success exactly when the frame's
\* timestamp less the skew is within 1/25 s of the clipped requested time and,
\* unless the audio flag is set, so is frame_id/25 less the skew; the tolerance
\* itself is accepted; with the audio flag the pixel plays no part. For t = 30.1
\* and no flags, ts 30.099 with a matching frame id passes and ts 30.2 fails.
OracleTolerance ==
    chk.called =>
        LET pt    == ClaimPlaybackTime(chk.t, chk.flags)
            tsOk  == Dist(pt, chk.ts - ClaimSkew(chk.flags)) <= 40
            colOk == Dist(pt, FrameIdOf(chk.data) * 40 - ClaimSkew(chk.flags)) <= 40
        IN  /\ chk.ret \in {0, -1}
            /\ chk.ret = 0 <=> (tsOk /\ (HasFlag(chk.flags, 4) \/ colOk))
            /\ (chk.t = 30100 /\ chk.flags = 0 /\ FrameIdOf(chk.data) \in {752, 753})
                   => /\ chk.ts = 30099 => chk.ret = 0
                      /\ chk.ts = 30200 => chk.ret = -1

\* both differences are exactly the tolerance, and the frame is accepted
OracleToleranceWitness ==
    /\ chk.called
    /\ chk.t = 0 /\ chk.flags = 0 /\ chk.ts = 40 /\ FrameIdOf(chk.data) = 1
    /\ chk.ret = 0

\* C8: Clamp behaviour. The time compared against is clip(t, 0, 53.43) with the
\* trim flag and clip(t, 0, unbounded) without: a negative t is checked against
\* 0, and with trim and skew a request for 60.0 is checked against 53.43, the
\* frame timestamp less 7.12: ts 60.55 passes the timestamp check, ts 67.12
\* fails it.
OracleClamp ==
    chk.called =>
        /\ chk.playback_time = ClaimPlaybackTime(chk.t, chk.flags)
        /\ chk.t < 0 => chk.playback_time = 0
        /\ chk.diff_ts = Dist(chk.playback_time, chk.ts - ClaimSkew(chk.flags))
        /\ (chk.t = 60000 /\ HasFlag(chk.flags, 1) /\ HasFlag(chk.flags, 2))
               => /\ chk.playback_time = 53430
                  /\ chk.ts = 60550 => /\ chk.diff_ts = 0
                                       /\ HasFlag(chk.flags, 4) => chk.ret = 0
                                       /\ FrameIdOf(chk.data) = 1514 => chk.ret = 0
                  /\ chk.ts = 67120 => /\ chk.diff_ts > 40
                                       /\ chk.ret = -1

OracleClampWitness ==
    /\ chk.called
    /\ chk.t = 60000 /\ chk.flags = 3 /\ chk.ts = 60550 /\ FrameIdOf(chk.data) = 1514
    /\ chk.playback_time = 53430
    /\ chk.ret = 0

-----------------------------------------------------------------------------
(* The enumeration on its own: comb = get_next_comb(comb) until EOA.        *)
(* Every activation of get_next_comb is one step: EnumCall is the caller's  *)
(* call, EnumRecurse an activation the function makes of itself.            *)

EnumDone == ncalls > 0 /\ epc = "idle" /\ ecomb = EOA

InitEnum ==
    /\ ecomb = 0
    /\ epc = "idle"
    /\ edepth = 0
    /\ emitted = <<>>
    /\ ncalls = 0
    /\ sinput = 0
    /\ chk = NoCheck
    /\ probe = NoProbe
    /\ HarnessIdle

EnumActivation(arg, depth) ==
    LET r == get_next_comb(arg) IN
    IF r[1]
    THEN /\ ecomb' = r[2]
         /\ epc' = "idle"
         /\ edepth' = 0
         /\ emitted' = IF r[2] = EOA THEN emitted ELSE Append(emitted, r[2])
    ELSE /\ ecomb' = r[2]
         /\ epc' = "in_call"
         /\ edepth' = depth + 1
         /\ emitted' = emitted

EnumCall ==
    /\ epc = "idle"
    /\ ~EnumDone
    /\ ncalls' = ncalls + 1
    /\ sinput' = sinput
    /\ EnumActivation(ecomb, 0)
    /\ UNCHANGED <<oracleVars, probeVars, harnessVars>>

EnumRecurse ==
    /\ epc = "in_call"
    /\ ncalls' = ncalls
    /\ sinput' = sinput
    /\ EnumActivation(ecomb, edepth)
    /\ UNCHANGED <<oracleVars, probeVars, harnessVars>>

NextEnum == EnumCall \/ EnumRecurse

SpecEnum == InitEnum /\ [][NextEnum]_vars

-----------------------------------------------------------------------------
(* What the enumeration claims speak of, stated on sequences of action ids  *)

\* slot i of a packed value; Slots are the slots get_next_comb can write, and one more
SlotOf(v, i) == (v \div (16 ^ i)) % 16
Slots == 0..NB_ACTIONS

\* number of leading non-terminator slots
CombLen(v) == Cardinality({n \in 1..(NB_ACTIONS - 1) : \A i \in 0..(n - 1) : SlotOf(v, i) # 0})

RECURSIVE Pack(_)
Pack(s) == IF s = <<>> THEN 0 ELSE Head(s) + 16 * Pack(Tail(s))

ActionIds == 1..(NB_ACTIONS - 1)

IsInjective(s) == \A i, j \in DOMAIN s : i # j => s[i] # s[j]

\* every duplicate-free sequence of length n over the action ids, packed
DupFreeOfLen(n) == {Pack(s) : s \in {q \in [1..n -> ActionIds] : IsInjective(q)}}

DupFreeCombs == UNION {DupFreeOfLen(n) : n \in ActionIds}

\* sum_{n=1..K} K!/(K-n)!
RECURSIVE Arrangements(_, _)
Arrangements(k, n) == IF n = 0 THEN 1 ELSE (k - n + 1) * Arrangements(k, n - 1)

RECURSIVE SumArrangements(_, _)
SumArrangements(k, n) == IF n = 0 THEN 0 ELSE Arrangements(k, n) + SumArrangements(k, n - 1)

EmittedSet == {emitted[k] : k \in 1..Len(emitted)}

NoRevisit == Cardinality(EmittedSet) = Len(emitted)

\* C1: Enumeration completeness. Feeding get_next_comb its own result from the
\* empty sequence until EOA emits every duplicate-free sequence of length 1..5
\* over the ids 1..5 exactly once, 325 = sum_{n=1..5} 5!/(5-n)! in all.
EnumComplete ==
    /\ NoRevisit
    /\ EmittedSet \subseteq DupFreeCombs
    /\ EnumDone => /\ EmittedSet = DupFreeCombs
                   /\ Len(emitted) = SumArrangements(NB_ACTIONS - 1, NB_ACTIONS - 1)
                   /\ Len(emitted) = 325

EnumCompleteWitness == EnumDone /\ Len(emitted) = 325

\* emitted only grows at its end, so a property of every emitted value is
\* stated of the last one, in every reachable state
HasEmitted == Len(emitted) > 0
LastEmitted == emitted[Len(emitted)]
PrevEmitted == emitted[Len(emitted) - 1]

\* C2: No duplicates. No value returned by get_next_comb other than the
\* sentinel holds an action id in two slots.
EnumNoDup ==
    HasEmitted =>
        \A i, j \in Slots :
            (i # j /\ SlotOf(LastEmitted, i) # 0) => SlotOf(LastEmitted, i) # SlotOf(LastEmitted, j)

\* the candidate [prefetch, prefetch] was skipped: [fetchinfo, prefetch] follows [end]
EnumNoDupWitness ==
    /\ Len(emitted) = 6
    /\ emitted[5] = Pack(<<ACTION_END>>)
    /\ emitted[6] = Pack(<<ACTION_FETCH_INFO, ACTION_PREFETCH>>)

\* C3: Termination. The sentinel is returned by the 326th call, after exactly
\* 325 emitted sequences and never earlier; no sequence is emitted twice; and
\* no call makes more than 232 calls of itself before it returns.
EnumTerminates ==
    /\ ncalls <= 326
    /\ EnumDone <=> (ncalls = 326 /\ epc = "idle")
    /\ Len(emitted) = (IF epc = "in_call" \/ EnumDone THEN ncalls - 1 ELSE ncalls)
    /\ NoRevisit
    /\ edepth <= 232

EnumTerminatesWitness == EnumDone /\ ncalls = 326 /\ Len(emitted) = ncalls - 1

\* b extends a by one more action at the right end
IsExtension(a, b) ==
    /\ CombLen(b) = CombLen(a) + 1
    /\ \A i \in 0..(CombLen(a) - 1) : SlotOf(b, i) = SlotOf(a, i)

\* C4 as stated: depth-first, rightmost-extension order. After a sequence of
\* length < 5 is emitted, the next emitted sequence extends it by one action.
EnumDepthFirst ==
    (Len(emitted) >= 2 /\ CombLen(PrevEmitted) < NB_ACTIONS - 1)
        => IsExtension(PrevEmitted, LastEmitted)

\* C4 as amended: shortest-first order. The next emitted sequence has the same
\* length as the one before, or is one longer, and it is longer only once
\* every duplicate-free sequence of the shorter length has been emitted.
EnumShortestFirst ==
    Len(emitted) >= 2 =>
        LET la == CombLen(PrevEmitted)
            lb == CombLen(LastEmitted)
        IN  \/ lb = la
            \/ /\ lb = la + 1
               /\ DupFreeOfLen(la) \subseteq {emitted[m] : m \in 1..(Len(emitted) - 1)}

EnumShortestFirstWitness ==
    /\ Len(emitted) = 26
    /\ CombLen(PrevEmitted) = 2
    /\ CombLen(LastEmitted) = 3

\* C5: No gaps. In every returned value other than the sentinel the occupied
\* slots are a prefix starting at slot 0: no empty slot is followed by an
\* occupied one.
EnumNoGaps ==
    HasEmitted =>
        \A i, j \in Slots :
            (i < j /\ SlotOf(LastEmitted, i) = 0) => SlotOf(LastEmitted, j) = 0

EnumNoGapsWitness ==
    HasEmitted /\ CombLen(LastEmitted) = 4 /\ SlotOf(LastEmitted, 4) = 0

-----------------------------------------------------------------------------
(* The executor and the probe actions                                       *)

\* exec_comb has returned to run_tests_all_combs with a failure / with success
ExecFailed == pc = "final_free" /\ run_comb # EOA
ExecSucceeded == pc = "loop_free"

\* C9: Fail-fast execution. exec_comb calls the actions of the sequence in slot
\* order; it stops at the first action that fails and returns that action's
\* code, calling no later action on the session; it returns success only when
\* every action of the sequence was called and succeeded.
ExecFailFast ==
    LET n == Len(invoked) IN
    /\ \A k \in 1..n : invoked[k].action = SlotOf(run_comb, k - 1)
    /\ \A k \in 1..(n - 1) : invoked[k].ret >= 0 /\ ~invoked[k].crashed
    /\ pc = "exec" => n = slot /\ \A k \in 1..n : invoked[k].ret >= 0
    /\ ExecFailed => /\ n >= 1
                     /\ n <= CombLen(run_comb)
                     /\ invoked[n].ret < 0
                     /\ run_ret = invoked[n].ret
    /\ ExecSucceeded => /\ run_ret = 0
                        /\ n = CombLen(run_comb)
                        /\ \A k \in 1..n : invoked[k].ret >= 0 /\ ~invoked[k].crashed

\* the second of three actions failed with the player's code -5: the third is not called
ExecFailFastWitness ==
    /\ ExecFailed
    /\ CombLen(run_comb) = 3
    /\ Len(invoked) = 2
    /\ invoked[2].action = ACTION_PREFETCH
    /\ run_ret = -5

\* the frames an action got from the player, and how often it released handle h
Acquired == {trace[k].h : k \in {j \in 1..Len(trace) :
                                   trace[j].op \in {"get_frame", "get_next_frame"}}} \ {0}
ReleaseCount(h) == Cardinality({k \in 1..Len(trace) :
                                   trace[k].op = "release_frame" /\ trace[k].h = h})

\* the last action called has returned (the process was not killed inside it)
ProbeReturned == Len(invoked) > 0 /\ ~invoked[Len(invoked)].crashed

\* check_frame was only applied to frames that are there (no undefined behaviour)
ChecksDefined == \A k \in 1..Len(trace) : trace[k].op = "check_frame" => trace[k].h # 0

\* C10: Frame release on every path. When a probe action returns, whatever the
\* player and check_frame answered, every frame it acquired has been released
\* exactly once, and no absent frame (NULL) has been released. (Stated of the
\* executions whose behaviour is defined: check_frame was given no NULL.)
ProbeReleasesAll ==
    (ProbeReturned /\ ChecksDefined) =>
        /\ \A h \in Acquired : ReleaseCount(h) = 1
        /\ ReleaseCount(0) = 0

-----------------------------------------------------------------------------
(* Sessions and the sweep                                                   *)

\* the options a session must have under the given flags
RequiredOptions(flags) ==
    {o \in {"auto_hwaccel", "skip", "trim_duration", "avselect"} :
        \/ o = "auto_hwaccel"
        \/ o = "skip" /\ HasFlag(flags, 1)
        \/ o = "trim_duration" /\ HasFlag(flags, 2)
        \/ o = "avselect" /\ HasFlag(flags, 4)}

\* C11: Session exclusivity. During run_tests_all_combs at most one session is
\* live; while the k-th sequence is executed the live session is the k-th one
\* created, and the k-1 sessions before it have been destroyed, so no session
\* executes two sequences; and its options (hwaccel off, skew and trim per the
\* flags, never the audio selection in main's four calls) are set before the
\* first action of the sequence is called.
SessionExclusive ==
    /\ Cardinality(live) <= 1
    /\ nExec <= nCreated
    /\ pc = "exec" => /\ live = {run_s}
                      /\ run_s = nCreated
                      /\ nExec = nCreated
                      /\ nFreed = nCreated - 1
                      /\ opts = RequiredOptions(opt_test_flags)

\* the third sequence of the skew+trim configuration is about to call its first action
SessionExclusiveWitness ==
    /\ pc = "exec" /\ slot = 0 /\ invoked = <<>>
    /\ cfgi = 4 /\ nExec = 3 /\ run_s = 3 /\ nFreed = 2
    /\ opts = {"auto_hwaccel", "skip", "trim_duration"}

\* run_tests_all_combs is not running: before the first call, between two calls, after the last
OutsideRun == pc \in {"main", "call", "returned", "exit"}

\* C12: Session destruction. Every session run_tests_all_combs created is
\* destroyed exactly once before it returns, on every exit path (a failed
\* sxplayer_create, a failed sequence, the end of the enumeration): a created
\* session is live or has been freed once, the session handle the function
\* holds is never one already freed, and none is live once it has returned.
SessionDestroyed ==
    /\ nFreed + Cardinality(live) = nCreated
    /\ run_s # 0 => run_s \in live
    /\ OutsideRun => /\ live = {}
                     /\ run_s = 0
                     /\ nFreed = nCreated

\* the second sequence failed: both sessions have been destroyed at the return
SessionDestroyedWitness ==
    /\ pc = "returned" /\ seqFailed /\ rv < 0
    /\ nCreated = 2 /\ nFreed = 2 /\ live = {}

\* C13: Sweep halt. Once a sequence has failed nothing more is executed:
\* exec_comb is not running and no further run_tests_all_combs call is made or
\* in progress, and the process result is non-zero. The configurations run in
\* the order baseline, skew, trim, skew+trim, each after all 325 sequences of
\* the ones before it passed, and the process result is 0 only when all 4 * 325
\* sequences passed.
SweepHalt ==
    /\ seqFailed => pc \in {"final_free", "returned", "exit"}
    /\ (seqFailed /\ pc = "exit") => rv # 0
    /\ pc = "exec" => /\ nPassed = (cfgi - 1) * 325 + nExec - 1
                      /\ "skip" \in opts <=> cfgi \in {2, 4}
                      /\ "trim_duration" \in opts <=> cfgi \in {3, 4}
    /\ (pc = "exit" /\ rv = 0) => /\ ~seqFailed
                                  /\ cfgi = 4
                                  /\ nPassed = 4 * 325

\* the second sequence of the skew configuration failed: the process ends with
\* -1, the trim and skew+trim configurations never started
SweepHaltWitness ==
    /\ pc = "exit" /\ seqFailed /\ rv = -1
    /\ cfgi = 2 /\ nExec = 2 /\ nPassed = 325 + 1

-----------------------------------------------------------------------------
(* The actions on their own: one action called once, under flags and player *)
(* answers drawn from PlayerAnswers.                                        *)

ProbeActions == ACTION_PREFETCH..ACTION_END

InitProbe ==
    /\ \E a \in ProbeActions, f \in OracleFlags :
          \E R \in PlayerAnswers(a, f) :
             probe = [called |-> FALSE, action |-> a, flags |-> f, R |-> R]
    /\ chk = NoCheck
    /\ HarnessIdle
    /\ ecomb = 0
    /\ epc = "idle"
    /\ edepth = 0
    /\ emitted = <<>>
    /\ ncalls = 0
    /\ sinput = 0

\* ret = actions_desc[action].func(s, opt_test_flags)
ProbeCall ==
    /\ ~probe.called
    /\ probe' = [called |-> TRUE, action |-> probe.action, flags |-> probe.flags, R |-> probe.R,
                 out |-> actions_desc(probe.action, probe.R, probe.flags)]
    /\ UNCHANGED <<enumVars, oracleVars, harnessVars>>

NextProbe == ProbeCall

SpecProbe == InitProbe /\ [][NextProbe]_vars

\* the calls of a trace on frames, and the positions of the calls of one kind
IsGet(e) == e.op \in {"get_frame", "get_next_frame"}
AcquiredIn(tr) == {tr[k].h : k \in {j \in 1..Len(tr) : IsGet(tr[j])}} \ {0}
ReleasesOf(tr, h) == Cardinality({k \in 1..Len(tr) : tr[k].op = "release_frame" /\ tr[k].h = h})
ChecksDefinedIn(tr) == \A k \in 1..Len(tr) : tr[k].op = "check_frame" => tr[k].h # 0

\* the action probe.action has been called and has returned
ProbeDone(a) == probe.called /\ probe.action = a
ProbeRet(a) == ProbeDone(a) /\ ~probe.out.crashed

\* C14: Absent frame is a probe failure. When the player returns no frame for
\* a request of action_start or action_middle that expects one (every frame
\* request but the seek to 16.001), the action returns a failure, and
\* check_frame is never called on an absent frame.
AbsentFrameFails ==
    (ProbeDone(ACTION_START) \/ ProbeDone(ACTION_MIDDLE)) =>
        LET tr == probe.out.trace IN
        /\ ChecksDefinedIn(tr)
        /\ (\E k \in 1..Len(tr) : IsGet(tr[k]) /\ tr[k].h = 0 /\ tr[k].t # 16 * TimeUnit + 1)
               => (~probe.out.crashed /\ probe.out.ret < 0)

\* C15: Probe-end outcome. action_end returns success exactly when the request
\* at 999999.0 yields a frame and the request at 99999.0 that follows yields
\* none; it makes the second request only when the first yielded a frame; and
\* on each of its three exit paths every frame it obtained has been released
\* once and nothing else has been released.
ProbeEndOutcome ==
    ProbeDone(ACTION_END) =>
        LET R  == probe.R
            tr == probe.out.trace
            second == {k \in 1..Len(tr) : tr[k].op = "get_frame" /\ tr[k].t = 99999 * 1000}
        IN  /\ ~probe.out.crashed
            /\ probe.out.ret \in {0, -1}
            /\ probe.out.ret = 0 <=> (R[1].present /\ ~R[2].present)
            /\ tr[1].op = "get_frame" /\ tr[1].t = 999999 * 1000
            /\ second # {} <=> R[1].present
            /\ \A k \in second : k > 1
            /\ \A h \in AcquiredIn(tr) : ReleasesOf(tr, h) = 1
            /\ ReleasesOf(tr, 0) = 0
            /\ Cardinality(AcquiredIn(tr)) =
                   (IF R[1].present THEN (IF R[2].present THEN 2 ELSE 1) ELSE 0)

\* both requests yielded a frame: failure, both frames released
ProbeEndOutcomeWitness ==
    /\ ProbeDone(ACTION_END)
    /\ probe.R[1].present /\ probe.R[2].present
    /\ probe.out.ret = -1
    /\ ReleasesOf(probe.out.trace, 1) = 1 /\ ReleasesOf(probe.out.trace, 2) = 1

\* frame f is there and is the frame a request at t must get under the flags:
\* its timestamp and, without the audio flag, its frame id are within 1/25 s
Verifies(f, t, flags) ==
    LET pt == ClaimPlaybackTime(t, flags) IN
    /\ f.present
    /\ Dist(pt, f.ts - ClaimSkew(flags)) <= 40
    /\ HasFlag(flags, 4) \/ Dist(pt, FrameIdOf(f.data) * 40 - ClaimSkew(flags)) <= 40

\* the six first-stage frames of action_middle verify
FirstStageVerifies(R, flags) ==
    /\ Verifies(R[1], 30000, flags) /\ Verifies(R[2], 30100, flags)
    /\ Verifies(R[3], 30200, flags) /\ Verifies(R[4], 15000, flags)
    /\ Verifies(R[5], 15040, flags) /\ Verifies(R[6], 15080, flags)

\* C16: Probe-middle non-redelivery. In action_middle, once the six first-stage
\* frames verified and were released, the probe requests the next frame, then
\* seeks to 16.0, then to 16.001. It returns success only if the next frame
\* verifies against 15.0 + 3/25, the 16.0 seek verifies against 16.0 and the
\* 16.001 seek yields no frame; when the 16.001 seek yields a frame it returns
\* failure. (Stated of the calls whose behaviour is defined: check_frame was
\* given no absent frame.)
MiddleNoRedelivery ==
    (ProbeRet(ACTION_MIDDLE) /\ ChecksDefinedIn(probe.out.trace)) =>
        LET R  == probe.R
            fl == probe.flags
            tr == probe.out.trace
        IN  /\ FirstStageVerifies(R, fl) =>
                  /\ Len(tr) >= 21
                  /\ \A k \in 13..18 : tr[k].op = "release_frame"
                  /\ {tr[k].h : k \in 13..18} = 1..6
                  /\ tr[19] = [op |-> "get_next_frame", h |-> Handle(R, 7), t |-> -1]
                  /\ tr[20] = [op |-> "get_frame", h |-> Handle(R, 8), t |-> 16000]
                  /\ tr[21] = [op |-> "get_frame", h |-> Handle(R, 9), t |-> 16001]
            /\ probe.out.ret = 0 =>
                  /\ FirstStageVerifies(R, fl)
                  /\ Verifies(R[7], 15120, fl)
                  /\ Verifies(R[8], 16000, fl)
                  /\ ~R[9].present
            /\ (FirstStageVerifies(R, fl) /\ R[9].present) => probe.out.ret < 0

\* everything verified, but the seek to 16.001 delivered a frame again: failure
MiddleNoRedeliveryWitness ==
    /\ ProbeRet(ACTION_MIDDLE) /\ ChecksDefinedIn(probe.out.trace)
    /\ FirstStageVerifies(probe.R, probe.flags)
    /\ Verifies(probe.R[7], 15120, probe.flags) /\ Verifies(probe.R[8], 16000, probe.flags)
    /\ probe.R[9].present
    /\ probe.out.ret = -1

\* the positions of trace at which a frame (not NULL) is released
ReleasePositions == {k \in 1..Len(trace) : trace[k].op = "release_frame" /\ trace[k].h # 0}

\* C17: No use after release. In the calls an action makes, a frame that has
\* been released is not passed to check_frame or to sxplayer_release_frame
\* again (no use after release, no double release), the second-stage frames of
\* action_middle held in f0, f1, f2 included; and the calls are made, so every
\* release takes place, while the session that produced the frames is live.
NoUseAfterRelease ==
    /\ \A i \in ReleasePositions :
           \A j \in (i + 1)..Len(trace) : trace[j].h # trace[i].h
    /\ (pc = "exec" \/ trace # <<>>) => (run_s # 0 /\ run_s \in live)

\* action_middle succeeded: handle 1 (f0) was released, then f0 was assigned
\* handle 7, which was checked and released in its turn
NoUseAfterReleaseWitness ==
    /\ Len(invoked) > 0
    /\ invoked[Len(invoked)] = [action |-> ACTION_MIDDLE, ret |-> 0, crashed |-> FALSE]
    /\ Len(trace) = 25
    /\ trace[13] = [op |-> "release_frame", h |-> 1, t |-> -1]
    /\ trace[22] = [op |-> "check_frame", h |-> 7, t |-> 15120]
    /\ trace[25] = [op |-> "release_frame", h |-> 7, t |-> -1]
    /\ run_s \in live

\* get_next_comb has returned EOA to run_tests_all_combs, which has left its loop
Exhausted == pc = "final_free" /\ run_comb = EOA

\* C19: Extra session at exhaustion. run_tests_all_combs creates and sets up
\* the session before it asks for the next sequence, so a run of one
\* configuration without a failure creates 326 sessions and executes 325
\* sequences; the last session is live at EOA, no action is called on it, it
\* is destroyed, and the function returns the 0 of the last exec_comb call.
ExtraSessionAtExhaustion ==
    /\ Exhausted => /\ nCreated = 326 /\ nExec = 325 /\ nFreed = 325
                    /\ live = {326} /\ run_s = 326
                    /\ invoked = <<>> /\ trace = <<>>
                    /\ run_ret_set /\ run_ret = 0
                    /\ nPassed = cfgi * 325
    /\ (pc = "returned" /\ rv >= 0) => /\ nCreated = 326 /\ nExec = 325 /\ nFreed = 326
                                       /\ live = {}
                                       /\ rv = 0

\* the baseline configuration has run through: 326 sessions created and destroyed
ExtraSessionAtExhaustionWitness ==
    /\ pc = "returned" /\ cfgi = 1 /\ rv = 0
    /\ nCreated = 326 /\ nExec = 325 /\ nFreed = 326 /\ live = {}

-----------------------------------------------------------------------------
(* get_next_comb on any input: one call on any value whose six slots hold   *)
(* 0..5, and, from the empty sequence, the caller's iteration up to EOA.    *)

SlotValues == 0..(NB_ACTIONS - 1)

SuccInputs == {Pack(s) : s \in [1..NB_ACTIONS -> SlotValues]}

InitSucc ==
    /\ sinput \in SuccInputs
    /\ ecomb = sinput
    /\ epc = "idle"
    /\ edepth = 0
    /\ emitted = <<>>
    /\ ncalls = 0
    /\ chk = NoCheck
    /\ probe = NoProbe
    /\ HarnessIdle

\* comb = get_next_comb(comb): the first call, and the calls that follow it
\* when the iteration started from the empty sequence
SuccCall ==
    /\ ncalls = 0 \/ sinput = 0
    /\ EnumCall

NextSucc == SuccCall \/ EnumRecurse

SpecSucc == InitSucc /\ [][NextSucc]_vars

\* the first call of get_next_comb has returned
FirstCallReturned == ncalls = 1 /\ epc = "idle"

\* C20: Totality of the successor. On every input whose six slots hold values
\* in 0..5, duplicates, gaps and six filled slots included, get_next_comb
\* terminates: it makes at most 232 calls of itself. It returns EOA or a
\* sequence over 1..5 that is duplicate-free, gap-free and at most 5 long; slot
\* 5 of a returned value is never occupied.
SuccTotal ==
    /\ edepth <= 232
    /\ FirstCallReturned =>
          \/ ecomb = EOA
          \/ /\ \A i \in 0..(NB_ACTIONS - 1) : SlotOf(ecomb, i) \in 0..5
             /\ SlotOf(ecomb, 0) # 0
             /\ SlotOf(ecomb, 5) = 0
             /\ ecomb < 16 ^ 5
             /\ \A i, j \in 0..(NB_ACTIONS - 1) :
                    /\ (i < j /\ SlotOf(ecomb, i) = 0) => SlotOf(ecomb, j) = 0
                    /\ (i # j /\ SlotOf(ecomb, i) # 0) => SlotOf(ecomb, i) # SlotOf(ecomb, j)

\* an input with a duplicate and a gap: [end, end, -, -, fetchinfo]; the
\* candidate [prefetch, prefetch, prefetch] and six more are skipped
SuccTotalWitness ==
    /\ FirstCallReturned
    /\ sinput = 5 + 16 * 5 + 16 * 16 * 16 * 16 * 2
    /\ ecomb = Pack(<<ACTION_START, ACTION_FETCH_INFO, ACTION_PREFETCH>>)

\* a packed value read as a base-6 number, slot 0 the least significant digit
Base6(v) ==
    SlotOf(v, 0) + 6 * (SlotOf(v, 1) + 6 * (SlotOf(v, 2) + 6 * (SlotOf(v, 3)
        + 6 * (SlotOf(v, 4) + 6 * SlotOf(v, 5)))))

GapFree(v) ==
    \A i, j \in 0..(NB_ACTIONS - 1) : (i < j /\ SlotOf(v, i) = 0) => SlotOf(v, j) = 0

\* the length of the k-th emitted sequence when the 5, 20, 60, 120, 120
\* sequences of length 1, 2, 3, 4, 5 come in this order
LengthAt(k) ==
    IF k <= 5 THEN 1
    ELSE IF k <= 5 + 20 THEN 2
    ELSE IF k <= 5 + 20 + 60 THEN 3
    ELSE IF k <= 5 + 20 + 60 + 120 THEN 4
    ELSE 5

\* C18: Actual emission order. Read as a base-6 number with slot 0 the least
\* significant digit, a value get_next_comb returns for a gap-free input, the
\* sentinel apart, is greater than the input. The enumeration from the empty
\* sequence is therefore strictly increasing and its lengths never decrease:
\* the 5 sequences of length 1 come first, then the 20 of length 2, the 60 of
\* length 3, the 120 of length 4, the 120 of length 5; the first emitted
\* sequence is [prefetch], the last [prefetch, fetchinfo, start, middle, end].
EmissionOrder ==
    /\ (FirstCallReturned /\ GapFree(sinput) /\ ecomb # EOA) => Base6(ecomb) > Base6(sinput)
    /\ (sinput = 0 /\ HasEmitted) =>
          /\ emitted[1] = Pack(<<ACTION_PREFETCH>>)
          /\ CombLen(LastEmitted) = LengthAt(Len(emitted))
          /\ Len(emitted) >= 2 => /\ Base6(LastEmitted) > Base6(PrevEmitted)
                                  /\ CombLen(LastEmitted) >= CombLen(PrevEmitted)
          /\ EnumDone => /\ Len(emitted) = 325
                         /\ LastEmitted = Pack(<<ACTION_PREFETCH, ACTION_FETCH_INFO, ACTION_START,
                                                 ACTION_MIDDLE, ACTION_END>>)

\* the enumeration from the empty sequence has reached the sentinel
EmissionOrderWitness ==
    /\ sinput = 0 /\ EnumDone
    /\ emitted[1] = 1
    /\ emitted[325] = 1 + 16 * (2 + 16 * (3 + 16 * (4 + 16 * 5)))

=============================================================================
